---- MODULE Spec2Model ----
(***************************************************************************)
(* Backend-Quickstart project generator: the template materialization      *)
(* engine of src/generators (generateProject, copyTemplate,                *)
(* processTemplateFile) together with the behaviour of Mustache.render     *)
(* that processTemplateFile relies on.                                     *)
(*                                                                         *)
(* Texts are sequences of one-character strings; a template is a sequence  *)
(* of tokens, each a text character or a {{..}} tag; a file name is a      *)
(* sequence of name atoms ("a", "_", ".ts", ".js", ".mustache").           *)
(***************************************************************************)
EXTENDS Integers, Sequences, FiniteSets, TLC

VARIABLES
    \* ---- Mustache.render applied to one (template, context) pair
    rpc,        \* "idle" | "ready" | "rendered"
    rin,        \* the template handed to Mustache.render, with the parts it was built from
    rview,      \* the view (TemplateContext) handed to Mustache.render
    rres        \* result of the call: rendered text or the thrown error

VARIABLES
    \* ---- one call of generateProject(options)
    pc,         \* "idle" | "start" | "ensure" | "copy" | "done" | "failed"
    opts,       \* GeneratorOptions: [config, overwrite]; projectPath is the root <<>> of fs
    tree,       \* the packaged template tree (read-only): path -> [kind, content]
    fs,         \* the file system at and below projectPath: path -> [kind, content, by]
    ctx,        \* templateContext, once built
    stack,      \* the active copyTemplate calls, innermost last: [src, dst, items]
    error,      \* the error generateProject has thrown to its caller
    \* ---- observation of the run (history)
    fs0,        \* fs when generateProject was called
    reads,      \* source files read so far
    raised,     \* the first error a file-system or Mustache call has raised
    rendered,   \* the contexts Mustache.render has been called with
    written     \* the completed file writes: <<source leaf, target file>>

VARIABLES
    \* ---- the target-name derivation of processTemplateFile applied to one source name
    pname,      \* the source file name
    pcalls,     \* number of derivations made so far
    pouts       \* the results so far: [ts, stripped, swapped, target], the typescript
                \* flag and targetFileName after lines 68, 76 and 80

VARIABLES
    \* ---- one run of the command line (the action handler of cli/index.ts)
    cpc,        \* "idle" | "start" | "path" | "confirm" | "generate" | "exit"
    cargs,      \* [name, yes, force]: the positional project name ("" when absent) and the flags
    cconfig,    \* the ProjectConfig, once built
    cfs,        \* the file system at and below projectPath
    cexit,      \* the exit code of the process, -1 while it runs
    \* ---- observation of the run (history)
    cfs0,       \* cfs when the run started
    ccalls      \* the calls of generateProject: its options and the error it threw

VARIABLES
    \* ---- the generated backend: one object each, "off" while not under study
    cm,         \* the ClusterManager of the master process and the workers it forked
    dbm,        \* the DatabaseConnectionManager
    au          \* the authentication middleware with the requests it serves

renderVars == <<rpc, rin, rview, rres>>
genVars == <<pc, opts, tree, fs, ctx, stack, error, fs0, reads, raised, rendered, written>>
pathVars == <<pname, pcalls, pouts>>
cliVars == <<cpc, cargs, cconfig, cfs, cexit, cfs0, ccalls>>
backendVars == <<cm, dbm, au>>
toolVars == <<genVars, renderVars, pathVars, cliVars>>

vars == <<rpc, rin, rview, rres, pc, opts, tree, fs, ctx, stack, error, fs0, reads, raised,
          rendered, written, pname, pcalls, pouts, cpc, cargs, cconfig, cfs, cexit, cfs0,
          ccalls, cm, dbm, au>>

\* what the actions of one part leave alone
genOthers == <<renderVars, pathVars, cliVars, backendVars>>
renderOthers == <<genVars, pathVars, cliVars, backendVars>>
pathOthers == <<genVars, renderVars, cliVars, backendVars>>
cliOthers == <<genVars, renderVars, pathVars, backendVars>>

(***************************************************************************)
(* Bounds of the model.                                                    *)
(***************************************************************************)
MaxTplLen == 3      \* longest template in the exhaustive template family
MaxTextLen == 2     \* longest literal text A, B in the branch family
MaxTreeSize == 3    \* most entries (files and directories) of a template tree
MaxNameLen == 4     \* most atoms of a source file name
MaxCliNameLen == 2  \* most characters of a project name given or typed
MaxWorkers == 2     \* config.cluster.maxWorkers: the workers forked at the start
RestartThreshold == 2 \* config.cluster.restartThreshold
MaxForks == 5       \* most workers the master forks in a behaviour
MaxActive == 2      \* most calls of handleReconnection in progress at once
MaxCalls == 3       \* most derivations of one name in a behaviour

(***************************************************************************)
(* Values of a context entry.  One record shape for every JavaScript type. *)
(***************************************************************************)
BoolV(b) == [k |-> "bool", b |-> b, s |-> <<>>, l |-> <<>>]
StrV(s) == [k |-> "str", b |-> FALSE, s |-> s, l |-> <<>>]
ListV(l) == [k |-> "list", b |-> FALSE, s |-> <<>>, l |-> l]
Undef == [k |-> "undef", b |-> FALSE, s |-> <<>>, l |-> <<>>]

\* JavaScript truthiness (!value is the negation of this).
Truthy(v) ==
    CASE v.k = "bool" -> v.b
      [] v.k = "str" -> v.s # <<>>
      [] v.k = "list" -> TRUE
      [] OTHER -> FALSE

(***************************************************************************)
(* Template tokens.                                                        *)
(***************************************************************************)
Txt(c) == [type |-> "text", value |-> c]
Tag(t, n) == [type |-> t, value |-> n]
Open(n) == Tag("#", n)
NOpen(n) == Tag("^", n)
Close(n) == Tag("/", n)
Var(n) == Tag("name", n)
Raw(n) == Tag("&", n)

IsWhitespace(c) == c \in {" ", "\n"}

\* Number of characters of the source text a token stands for:
\* {{#f}} {{^f}} {{/f}} are 5 + |f|, {{f}} is 4 + |f|, {{{f}}} is 6 + |f|.
TokLen(t) ==
    CASE t.type = "text" -> 1
      [] t.type \in {"#", "^", "/"} -> 5 + Len(t.value)
      [] t.type = "name" -> 4 + Len(t.value)
      [] OTHER -> 6 + Len(t.value)

(***************************************************************************)
(* Mustache.render (mustache.js) for templates made of text, sections      *)
(* {{#f}}, inverted sections {{^f}}, close tags {{/f}} and variables       *)
(* {{f}}, {{{f}}}; views hold booleans, strings and string lists.          *)
(*                                                                         *)
(* Step 1: parseTemplate.  A single left-to-right scan                     *)
(* that keeps the stack of open sections and, line by line, the indices of *)
(* the whitespace tokens; a line that holds a section tag and otherwise    *)
(* only whitespace has its whitespace tokens deleted (stripSpace).         *)
(***************************************************************************)
NoErr == [msg |-> "", name |-> "", at |-> 0]
Err(m, n, p) == [msg |-> m, name |-> n, at |-> p]

ParseInit ==
    [tokens |-> <<>>, del |-> {}, spaces |-> {}, hasTag |-> FALSE,
     nonSpace |-> FALSE, sections |-> <<>>, pos |-> 0, err |-> NoErr]

StripSpace(st) ==
    [st EXCEPT !.del = IF st.hasTag /\ ~st.nonSpace THEN st.del \cup st.spaces ELSE st.del,
               !.spaces = {},
               !.hasTag = FALSE,
               !.nonSpace = FALSE]

ParseText(st, t) ==
    LET idx == Len(st.tokens) + 1
        st1 == [st EXCEPT !.spaces = IF IsWhitespace(t.value) THEN st.spaces \cup {idx} ELSE st.spaces,
                          !.nonSpace = IF IsWhitespace(t.value) THEN st.nonSpace ELSE TRUE,
                          !.tokens = Append(st.tokens, t),
                          !.pos = st.pos + 1]
    IN  IF t.value = "\n" THEN StripSpace(st1) ELSE st1

ParseTag(st, t) ==
    LET st1 == [st EXCEPT !.hasTag = TRUE,
                          !.tokens = Append(st.tokens, t),
                          !.pos = st.pos + TokLen(t)]
        n == Len(st.sections)
    IN  CASE t.type \in {"#", "^"} ->
                [st1 EXCEPT !.sections = Append(st.sections, t.value)]
          [] t.type = "/" ->
                IF n = 0
                THEN [st1 EXCEPT !.err = Err("Unopened section", t.value, st.pos)]
                ELSE IF st.sections[n] # t.value
                THEN [st1 EXCEPT !.err = Err("Unclosed section", st.sections[n], st.pos),
                                 !.sections = SubSeq(st.sections, 1, n - 1)]
                ELSE [st1 EXCEPT !.sections = SubSeq(st.sections, 1, n - 1)]
          [] OTHER ->
                [st1 EXCEPT !.nonSpace = TRUE]

RECURSIVE ParseScan(_, _)
ParseScan(st, tpl) ==
    IF tpl = <<>> \/ st.err # NoErr THEN st
    ELSE LET t == Head(tpl)
         IN  ParseScan(IF t.type = "text" THEN ParseText(st, t) ELSE ParseTag(st, t),
                       Tail(tpl))

RECURSIVE Keep(_, _, _)
Keep(tokens, del, i) ==
    IF i > Len(tokens) THEN <<>>
    ELSE (IF i \in del THEN <<>> ELSE <<tokens[i]>>) \o Keep(tokens, del, i + 1)

\* [ok, tokens, err]: the token list, or the error parseTemplate throws.
ParseTemplate(tpl) ==
    IF tpl = <<>> THEN [ok |-> TRUE, tokens |-> <<>>, err |-> NoErr]
    ELSE LET st == ParseScan(ParseInit, tpl)
             fin == StripSpace(st)
             n == Len(fin.sections)
         IN  IF st.err # NoErr
             THEN [ok |-> FALSE, tokens |-> <<>>, err |-> st.err]
             ELSE IF n > 0
             THEN [ok |-> FALSE, tokens |-> <<>>,
                   err |-> Err("Unclosed section", fin.sections[n], fin.pos)]
             ELSE [ok |-> TRUE, tokens |-> Keep(fin.tokens, fin.del, 1), err |-> NoErr]

(***************************************************************************)
(* Mustache.render, step 2: renderTokens over the nested token list.       *)
(***************************************************************************)
\* Context.lookup: the flags of the templates are plain keys of the view.
\* A view pushed by a section (a string or a list item) has none of them
\* as an own property, so the lookup always falls through to the root view.
Lookup(view, name) == IF name \in DOMAIN view THEN view[name] ELSE Undef

RECURSIVE JoinComma(_)
JoinComma(l) ==
    IF l = <<>> THEN <<>>
    ELSE IF Len(l) = 1 THEN l[1]
    ELSE l[1] \o <<",">> \o JoinComma(Tail(l))

\* String(value) for a value that is not null or undefined.
ToStr(v) ==
    CASE v.k = "bool" -> IF v.b THEN <<"t", "r", "u", "e">> ELSE <<"f", "a", "l", "s", "e">>
      [] v.k = "str" -> v.s
      [] v.k = "list" -> JoinComma(v.l)
      [] OTHER -> <<>>

EscapeChar(c) ==
    CASE c = "&" -> <<"&", "a", "m", "p", ";">>
      [] c = "<" -> <<"&", "l", "t", ";">>
      [] c = ">" -> <<"&", "g", "t", ";">>
      [] c = "\"" -> <<"&", "q", "u", "o", "t", ";">>
      [] c = "'" -> <<"&", "#", "3", "9", ";">>
      [] c = "/" -> <<"&", "#", "x", "2", "F", ";">>
      [] OTHER -> <<c>>

RECURSIVE EscapeHtml(_)
EscapeHtml(s) == IF s = <<>> THEN <<>> ELSE EscapeChar(Head(s)) \o EscapeHtml(Tail(s))

\* Index in toks of the close tag that ends the section opened at toks[1].
RECURSIVE MatchClose(_, _, _)
MatchClose(toks, i, depth) ==
    IF toks[i].type \in {"#", "^"} THEN MatchClose(toks, i + 1, depth + 1)
    ELSE IF toks[i].type = "/"
         THEN IF depth = 1 THEN i ELSE MatchClose(toks, i + 1, depth - 1)
    ELSE MatchClose(toks, i + 1, depth)

RECURSIVE RenderTokens(_, _)
RECURSIVE Times(_, _)
Times(n, s) == IF n = 0 THEN <<>> ELSE s \o Times(n - 1, s)

RenderSectionAlways(v, body, view) == RenderTokens(body, view)

RenderSection(v, body, view) ==
    IF ~Truthy(v) THEN <<>>
    ELSE IF v.k = "list" THEN Times(Len(v.l), RenderTokens(body, view))
    ELSE RenderTokens(body, view)

RenderInvertedAlways(v, body, view) == RenderTokens(body, view)

RenderInverted(v, body, view) ==
    IF ~Truthy(v) \/ (v.k = "list" /\ v.l = <<>>) THEN RenderTokens(body, view) ELSE <<>>

RenderTokens(toks, view) ==
    IF toks = <<>> THEN <<>>
    ELSE LET h == Head(toks)
         IN  CASE h.type = "text" -> <<h.value>> \o RenderTokens(Tail(toks), view)
               [] h.type = "name" ->
                    EscapeHtml(ToStr(Lookup(view, h.value))) \o RenderTokens(Tail(toks), view)
               [] h.type = "&" ->
                    ToStr(Lookup(view, h.value)) \o RenderTokens(Tail(toks), view)
               [] OTHER ->
                    LET j == MatchClose(toks, 2, 1)
                        body == SubSeq(toks, 2, j - 1)
                        rest == SubSeq(toks, j + 1, Len(toks))
                        v == Lookup(view, h.value)
                    IN  (IF h.type = "#" THEN RenderSection(v, body, view)
                                         ELSE RenderInverted(v, body, view))
                        \o RenderTokens(rest, view)

\* Mustache.render(template, view): [ok, out, err].
MustacheRender(tpl, view) ==
    LET p == ParseTemplate(tpl)
    IN  IF p.ok THEN [ok |-> TRUE, out |-> RenderTokens(p.tokens, view), err |-> NoErr]
        ELSE [ok |-> FALSE, out |-> <<>>, err |-> p.err]

(***************************************************************************)
(* generateProject, lines 18-29: the TemplateContext built from the        *)
(* ProjectConfig.  The model keeps the entries templates branch on.        *)
(***************************************************************************)
Databases == {"postgresql", "mysql", "sqlite", "mongodb"}

\* features as collectProjectInfo and the --yes defaults build it: one entry
\* per enabled feature, in declaration order.
FeatureList(docker, redis) ==
    (IF docker THEN <<(<<"docker">>)>> ELSE <<>>) \o (IF redis THEN <<(<<"redis">>)>> ELSE <<>>)

Config(name, author, ts, db, docker, redis) ==
    [name |-> name, author |-> author, typescript |-> ts, database |-> db,
     docker |-> docker, redis |-> redis, features |-> FeatureList(docker, redis)]

Names == {<<"d">>, <<"d", "&">>}
Authors == {<<>>, <<"<", "e">>}

Configs ==
    {Config(n, a, ts, db, dk, rd) :
        n \in Names, a \in Authors, ts \in BOOLEAN, db \in Databases,
        dk \in BOOLEAN, rd \in BOOLEAN}

BuildContextFirstEngine(config) ==
    [name |-> StrV(config.name),
     author |-> StrV(config.author),
     typescript |-> BoolV(config.typescript),
     database |-> StrV(<<config.database>>),
     docker |-> BoolV(config.docker),
     redis |-> BoolV(config.redis),
     features |-> ListV(config.features),
     postgresql |-> BoolV(config.database = "postgresql"),
     mysql |-> BoolV(config.database = "postgresql"),
     sqlite |-> BoolV(config.database = "sqlite"),
     mongodb |-> BoolV(config.database = "mongodb")]

BuildContext(config) ==
    [name |-> StrV(config.name),
     author |-> StrV(config.author),
     typescript |-> BoolV(config.typescript),
     database |-> StrV(<<config.database>>),
     docker |-> BoolV(config.docker),
     redis |-> BoolV(config.redis),
     features |-> ListV(config.features),
     postgresql |-> BoolV(config.database = "postgresql"),
     mysql |-> BoolV(config.database = "mysql"),
     sqlite |-> BoolV(config.database = "sqlite"),
     mongodb |-> BoolV(config.database = "mongodb")]

(***************************************************************************)
(* Templates of the rendering specification.                               *)
(***************************************************************************)
RECURSIVE SeqsUpTo(_, _)
SeqsUpTo(S, n) ==
    IF n = 0 THEN {<<>>}
    ELSE LET shorter == SeqsUpTo(S, n - 1)
         IN  shorter \cup {Append(q, x) : q \in shorter, x \in S}

RECURSIVE TxtSeq(_)
TxtSeq(s) == IF s = <<>> THEN <<>> ELSE <<Txt(Head(s))>> \o TxtSeq(Tail(s))

\* {{#f}}A{{/f}}{{^f}}B{{/f}}
BranchTpl(f, A, B) ==
    <<Open(f)>> \o TxtSeq(A) \o <<Close(f), NOpen(f)>> \o TxtSeq(B) \o <<Close(f)>>

\* {{#a}}X{{#b}}Y{{/b}}Z{{/a}}
NestTpl(a, b) ==
    <<Open(a), Txt("X"), Open(b), Txt("Y"), Close(b), Txt("Z"), Close(a)>>

Flags == {"docker", "redis", "author", "features", "absent"}
BoolFlags == {"docker", "redis", "typescript"}
TextsA == SeqsUpTo({"A", " ", "\n"}, MaxTextLen)
TextsB == SeqsUpTo({"B", " ", "\n"}, MaxTextLen)

TokAlphabet ==
    {Txt("X"), Txt(" "), Txt("\n"), Var("author"), Raw("author")}
    \cup {Tag(t, n) : t \in {"#", "^", "/"}, n \in {"docker", "redis"}}

RIn(fam, f, g, A, B, toks) == [fam |-> fam, f |-> f, g |-> g, A |-> A, B |-> B, toks |-> toks]

RenderInputs ==
    {RIn("branch", f, "", A, B, BranchTpl(f, A, B)) : f \in Flags, A \in TextsA, B \in TextsB}
    \cup {RIn("nest", a, b, <<>>, <<>>, NestTpl(a, b)) : a \in BoolFlags, b \in BoolFlags}
    \cup {RIn("any", "", "", <<>>, <<>>, t) : t \in SeqsUpTo(TokAlphabet, MaxTplLen)}

(***************************************************************************)
(* processTemplateFile, lines 61-80: the target file name.                 *)
(***************************************************************************)
EndsWith(name, atom) == name # <<>> /\ name[Len(name)] = atom
StartsWith(name, atom) == name # <<>> /\ name[1] = atom
\* line 67: fileName.endsWith('.mustache'); lines 72, 74: /\.ts$/, /\.js$/
IsTemplateName(name) == name # <<>> /\ name[Len(name)] = ".mustache"
HasExt(name, ext) == name # <<>> /\ name[Len(name)] = ext

\* String.prototype.replace(pattern, '') with a string pattern: the first
\* occurrence only.
RECURSIVE RemoveFirst(_, _)
RemoveFirst(name, atom) ==
    IF name = <<>> THEN <<>>
    ELSE IF Head(name) = atom THEN Tail(name)
    ELSE <<Head(name)>> \o RemoveFirst(Tail(name), atom)

\* replace(/\.from$/, '.to')
SwapExt(name, from, to) ==
    IF EndsWith(name, from) THEN [name EXCEPT ![Len(name)] = to] ELSE name

\* replace(/^_/, '.')
DotfileEvery(name) == [i \in 1..Len(name) |-> IF name[i] = "_" THEN "." ELSE name[i]]

Dotfile(name) == IF StartsWith(name, "_") THEN [name EXCEPT ![1] = "."] ELSE name

\* targetFileName after line 68
StrippedName(fileName) ==
    IF EndsWith(fileName, ".mustache") THEN RemoveFirst(fileName, ".mustache") ELSE fileName

\* targetFileName after line 76
SwappedNameByDocker(fileName, context) ==
    LET stripped == RemoveFirst(fileName, ".mustache")
        swapped == IF context.docker.b THEN SwapExt(stripped, ".js", ".ts")
                                      ELSE SwapExt(stripped, ".ts", ".js")
    IN  IF EndsWith(fileName, ".mustache") THEN swapped ELSE fileName

SwappedName(fileName, context) ==
    LET stripped == RemoveFirst(fileName, ".mustache")
        swapped == IF context.typescript.b THEN SwapExt(stripped, ".js", ".ts")
                                          ELSE SwapExt(stripped, ".ts", ".js")
    IN  IF EndsWith(fileName, ".mustache") THEN swapped ELSE fileName

\* targetFileName after line 80
TargetFileName(fileName, context) == Dotfile(SwappedName(fileName, context))

(***************************************************************************)
(* The file system (fs-extra) below projectPath.                           *)
(***************************************************************************)
IsPrefix(p, q) == Len(p) <= Len(q) /\ SubSeq(q, 1, Len(p)) = p

\* path.join(dir, name); joining the empty name gives dir itself
JoinPath(dir, name) == IF name = <<>> THEN dir ELSE Append(dir, name)
BaseName(path) == path[Len(path)]

Dir(by) == [kind |-> "dir", content |-> <<>>, by |-> by]
File(content, by) == [kind |-> "file", content |-> content, by |-> by]

Put(f, p, node) == [q \in DOMAIN f \cup {p} |-> IF q = p THEN node ELSE f[q]]

PathExists(f, p) == p \in DOMAIN f
\* fs.remove(p): p and everything below it
Remove(f, p) == [q \in {r \in DOMAIN f : ~IsPrefix(p, r)} |-> f[q]]
\* fs.ensureDir(p) fails where p is an existing file
CanEnsureDir(f, p) == p \notin DOMAIN f \/ f[p].kind = "dir"
EnsureDir(f, p) == IF p \in DOMAIN f THEN f ELSE Put(f, p, Dir("run"))
\* fs.writeFile(p) and fs.copy(src, p) fail where p is an existing directory
CanWrite(f, p) == p \notin DOMAIN f \/ f[p].kind = "file"
WriteFile(f, p, content) == Put(f, p, File(content, "run"))

IOError(op) == Err("IOError", op, 0)
DirExistsError == Err("Directory already exists. Use --force to overwrite.", "", 0)

RECURSIVE Perms(_)
Perms(S) ==
    IF S = {} THEN {<<>>}
    ELSE UNION {{<<x>> \o q : q \in Perms(S \ {x})} : x \in S}

\* fs.readdir(dir): the entry names, in an order the platform chooses
Readdir(t, dir) == Perms({BaseName(p) : p \in {q \in DOMAIN t : Len(q) = Len(dir) + 1 /\ IsPrefix(dir, q)}})

\* line 47: path.join(targetDir, item), the name of a directory is kept
TargetItemDirDerived(targetDir, item) == JoinPath(targetDir, Dotfile(RemoveFirst(item, ".mustache")))

TargetItemDir(targetDir, item) == JoinPath(targetDir, item)

\* one call copyTemplate(templatesDir, targetDir, context) with the items left
FrameOtherContext(src, dst, context, items) ==
    [src |-> src, dst |-> dst,
     context |-> [context EXCEPT !.docker = [context.docker EXCEPT !.b = ~context.docker.b]],
     items |-> items]
Frame(src, dst, context, items) == [src |-> src, dst |-> dst, context |-> context, items |-> items]

(***************************************************************************)
(* processTemplateFile(sourceFile, targetDir, context), as a function of   *)
(* the outcome io of its file-system calls ("ok", "read", "write").        *)
(* Result: the new file system, whether the source was read, the error the *)
(* failing call raised and the error the function throws.                  *)
(***************************************************************************)
PResult(f, rd, used, rsd, thr) ==
    [fs |-> f, read |-> rd, used |-> used, raised |-> rsd, thrown |-> thr]

\* lines 89-92: the catch block logs the source file and throws the error on
Swallow(e) == NoErr
Rethrow(e) == e

\* line 82: path.join(targetDir, targetFileName)
TargetFile(sourceFile, targetDir, context) ==
    JoinPath(targetDir, TargetFileName(BaseName(sourceFile), context))

\* line 94: fs.copy(sourceFile, targetFile) writes the bytes of the source
FsCopyNothing(t, sourceFile) == <<>>

FsCopy(t, sourceFile) == t[sourceFile].content

ProcessTemplateFile(t, f, sourceFile, targetDir, context, io) ==
    LET fileName == BaseName(sourceFile)
        targetFile == TargetFile(sourceFile, targetDir, context)
        content == t[sourceFile].content
    IN  IF EndsWith(fileName, ".mustache")
        THEN IF io = "read"
             THEN PResult(f, FALSE, {}, IOError("readFile"), Rethrow(IOError("readFile")))
             ELSE LET r == MustacheRender(content, context)
                  IN  IF ~r.ok THEN PResult(f, TRUE, {context}, r.err, Rethrow(r.err))
                      ELSE IF io = "write" \/ ~CanWrite(f, targetFile)
                      THEN PResult(f, TRUE, {context}, IOError("writeFile"), Rethrow(IOError("writeFile")))
                      ELSE PResult(WriteFile(f, targetFile, TxtSeq(r.out)), TRUE, {context}, NoErr, NoErr)
        ELSE IF io # "ok" \/ ~CanWrite(f, targetFile)
             THEN PResult(f, io = "write", {}, IOError("copy"), IOError("copy"))
             ELSE PResult(WriteFile(f, targetFile, FsCopy(t, sourceFile)), TRUE, {}, NoErr, NoErr)

(***************************************************************************)
(* Template trees and prior contents of the target.                        *)
(***************************************************************************)
SubDir == <<"_", "b", ".ts", ".mustache">>
BadTpl == <<Open("docker"), Txt("X"), Close("redis")>>
Node(kind, content) == [kind |-> kind, content |-> content]

\* The entries a template tree is drawn from: <<path, node>>.
TreePool ==
    { <<(<<(<<"a">>)>>), Node("file", <<Txt("X"), Open("docker")>>)>>,
      <<(<<(<<"_", "a">>)>>), Node("file", <<Txt("Y")>>)>>,
      <<(<<(<<"a", ".ts", ".mustache">>)>>), Node("file", BranchTpl("docker", <<"A">>, <<"B">>))>>,
      <<(<<(<<"b", ".mustache">>)>>), Node("file", BadTpl)>>,
      <<(<<(<<"a", ".mustache">>)>>), Node("file", <<Txt("W")>>)>>,
      <<(<<SubDir>>), Node("dir", <<>>)>>,
      <<(<<SubDir, <<"a", ".js", ".mustache">>>>), Node("file", <<Var("name"), Txt("Z")>>)>>,
      <<(<<SubDir, <<"b", ".mustache">>>>), Node("file", <<Txt("X"), Open("redis")>>)>> }

TreeOf(E) == [p \in {e[1] : e \in E} |-> (CHOOSE e \in E : e[1] = p)[2]]

Trees ==
    {TreeOf(E) : E \in {F \in SUBSET TreePool :
        /\ Cardinality(F) <= MaxTreeSize
        /\ \A e \in F : Len(e[1]) = 2 => \E d \in F : d[1] = <<SubDir>>}}

OldText == <<Txt("o")>>


Priors ==
    { <<>>,
      (<<>> :> Dir("prior")),
      (<<>> :> File(OldText, "prior")),
      (<<>> :> Dir("prior")) @@ (<<(<<"a", ".js">>)>> :> File(OldText, "prior")),
      (<<>> :> Dir("prior")) @@ (<<SubDir>> :> Dir("prior"))
          @@ (<<SubDir, <<"o">>>> :> File(OldText, "prior")) }

GenConfigs == {c \in Configs : c.name = <<"d">> /\ c.author = <<>> /\ ~c.redis}

NoCtx == [key \in DOMAIN BuildContext(Config(<<>>, <<>>, FALSE, "", FALSE, FALSE)) |-> Undef]

GenIdle ==
    /\ pc = "idle"
    /\ opts = [config |-> Config(<<>>, <<>>, FALSE, "", FALSE, FALSE), overwrite |-> FALSE]
    /\ tree = <<>>
    /\ fs = <<>>
    /\ ctx = NoCtx
    /\ stack = <<>>
    /\ error = NoErr
    /\ fs0 = <<>>
    /\ reads = {}
    /\ raised = NoErr
    /\ rendered = {}
    /\ written = {}

NoRes == [ok |-> FALSE, out |-> <<>>, err |-> NoErr]

PathIdle ==
    /\ pname = <<>>
    /\ pcalls = 0
    /\ pouts = {}

RenderIdle ==
    /\ rpc = "idle"
    /\ rin = RIn("any", "", "", <<>>, <<>>, <<>>)
    /\ rview = NoCtx
    /\ rres = NoRes

(***************************************************************************)
(* The command line: project names, their validation (utils/validation.ts) *)
(* and the ProjectConfig built from the prompts or from the --yes defaults.*)
(***************************************************************************)
CliChars == {"a", "A", " ", ".", "_"}
CliNames == SeqsUpTo(CliChars, MaxCliNameLen)
\* prompts.ts line 15: 'my-backend-api'
DefaultName == <<"a", "-", "a">>

\* validate-npm-package-name, validForNewPackages: not empty, no leading '.'
\* or '_', no capital letters, nothing that encodeURIComponent would change
ValidateProjectName(name) ==
    /\ name # <<>>
    /\ name[1] \notin {".", "_"}
    /\ \A i \in 1..Len(name) : name[i] \notin {"A", " "}

IsDashDot(c) == c \in {"-", "."}
RECURSIVE TrimLeft(_)
TrimLeft(name) ==
    IF name # <<>> /\ IsDashDot(Head(name)) THEN TrimLeft(Tail(name)) ELSE name
RECURSIVE TrimRight(_)
TrimRight(name) ==
    IF name # <<>> /\ IsDashDot(name[Len(name)])
    THEN TrimRight(SubSeq(name, 1, Len(name) - 1)) ELSE name
\* replace(/[-.]{2,}/g, '-')
RECURSIVE CollapseRuns(_)
CollapseRuns(name) ==
    IF name = <<>> THEN <<>>
    ELSE IF Len(name) >= 2 /\ IsDashDot(name[1]) /\ IsDashDot(name[2])
    THEN <<"-">> \o CollapseRuns(TrimLeft(name))
    ELSE <<Head(name)>> \o CollapseRuns(Tail(name))

\* toLowerCase(), replace(/[^a-z0-9-_.]/g, '-'), replace(/^[-.]+|[-.]+$/g, '')
\* and the collapse of the runs
SanitizeProjectName(name) ==
    LET lower == [i \in 1..Len(name) |-> IF name[i] = "A" THEN "a" ELSE name[i]]
        safe == [i \in 1..Len(lower) |->
                    IF lower[i] \in {"a", "-", "_", "."} THEN lower[i] ELSE "-"]
    IN  CollapseRuns(TrimRight(TrimLeft(safe)))

\* validateProjectPath(projectPath).valid
ValidateProjectPath(f) ==
    IF PathExists(f, <<>>)
    THEN /\ f[<<>>].kind # "file"
         /\ \A p \in DOMAIN f : p = <<>>
    ELSE TRUE

FeatureNames ==
    <<"authentication", "swagger", "testing", "docker", "redis", "websockets",
      "backgroundJobs", "cors", "rateLimit", "monitoring">>

\* prompts.ts lines 124-134: one entry for each answer that is true
RECURSIVE PushFeatures(_, _)
PushFeaturesAll(answers, names) ==
    IF names = <<>> THEN <<>>
    ELSE <<(<<Head(names)>>)>> \o PushFeatures(answers, Tail(names))

PushFeatures(answers, names) ==
    IF names = <<>> THEN <<>>
    ELSE (IF answers[Head(names)] THEN <<(<<Head(names)>>)>> ELSE <<>>)
             \o PushFeatures(answers, Tail(names))

\* the ProjectConfig: the fields the generator and its templates consult
CliConfig(name, author, ts, db, flags, features) ==
    [name |-> name, author |-> author, typescript |-> ts, database |-> db,
     authentication |-> flags.authentication, swagger |-> flags.swagger,
     testing |-> flags.testing, docker |-> flags.docker, redis |-> flags.redis,
     websockets |-> flags.websockets, backgroundJobs |-> flags.backgroundJobs,
     cors |-> flags.cors, rateLimit |-> flags.rateLimit, monitoring |-> flags.monitoring,
     features |-> features]

AllFlags(b) == [n \in {FeatureNames[i] : i \in 1..Len(FeatureNames)} |-> b]

\* cli/index.ts lines 28-47: the configuration of a --yes run
DefaultConfig(projectName) ==
    CliConfig(projectName, <<>>, TRUE, "postgresql",
              [AllFlags(TRUE) EXCEPT !.websockets = FALSE],
              << <<"authentication">>, <<"swagger">>, <<"testing">>, <<"docker">>, <<"redis">>,
                 <<"backgroundJobs">>, <<"cors">>, <<"rateLimit">>, <<"monitoring">> >>)

\* the answers to the questions after the name (prompts.ts lines 25-121)
PromptAnswers ==
    {[author |-> <<>>, typescript |-> ts, database |-> "postgresql", flags |-> fl] :
        ts \in BOOLEAN,
        fl \in {AllFlags(TRUE), AllFlags(FALSE),
                [AllFlags(TRUE) EXCEPT !.websockets = FALSE],
                [AllFlags(FALSE) EXCEPT !.websockets = TRUE, !.docker = TRUE]}}

\* collectProjectInfo: the name prompt hands sanitizeProjectName(input) to
\* validate and asks again until it is valid; lines 124-140 build the result
CollectProjectInfo(input, answers) ==
    CliConfig(SanitizeProjectName(input), answers.author, answers.typescript,
              answers.database, answers.flags, PushFeatures(answers.flags, FeatureNames))

NoConfig == CliConfig(<<>>, <<>>, FALSE, "", AllFlags(FALSE), <<>>)

Off == [phase |-> "off"]
BackendIdle == cm = Off /\ dbm = Off /\ au = Off

CliIdle ==
    /\ BackendIdle
    /\ cpc = "idle"
    /\ cargs = [name |-> <<>>, yes |-> FALSE, force |-> FALSE]
    /\ cconfig = NoConfig
    /\ cfs = <<>>
    /\ cexit = -1
    /\ cfs0 = <<>>
    /\ ccalls = {}

(***************************************************************************)
(* generateProject(options)                                                *)
(***************************************************************************)
GenInit ==
    /\ pc = "start"
    /\ opts \in [config : GenConfigs, overwrite : BOOLEAN]
    /\ tree \in Trees
    /\ fs \in Priors
    /\ ctx = NoCtx
    /\ stack = <<>>
    /\ error = NoErr
    /\ fs0 = fs
    /\ reads = {}
    /\ raised = NoErr
    /\ rendered = {}
    /\ written = {}

\* lines 9-14: [fs, err] where ok is the outcome of fs.remove
CheckTargetRemoveFirst(f, overwrite, ok) ==
    IF ~PathExists(f, <<>>) THEN [fs |-> f, err |-> NoErr]
    ELSE IF ~overwrite THEN [fs |-> Remove(f, <<>>), err |-> DirExistsError]
    ELSE IF ok THEN [fs |-> Remove(f, <<>>), err |-> NoErr]
    ELSE [fs |-> f, err |-> IOError("remove")]

CheckTargetNoRemove(f, overwrite, ok) ==
    IF ~PathExists(f, <<>>) THEN [fs |-> f, err |-> NoErr]
    ELSE IF ~overwrite THEN [fs |-> f, err |-> DirExistsError]
    ELSE [fs |-> f, err |-> NoErr]

CheckTarget(f, overwrite, ok) ==
    IF ~PathExists(f, <<>>) THEN [fs |-> f, err |-> NoErr]
    ELSE IF ~overwrite THEN [fs |-> f, err |-> DirExistsError]
    ELSE IF ok THEN [fs |-> Remove(f, <<>>), err |-> NoErr]
    ELSE [fs |-> f, err |-> IOError("remove")]

Throw(e) ==
    /\ pc' = "failed"
    /\ error' = e
    /\ raised' = IF raised = NoErr THEN e ELSE raised

GenerateProject_Check ==
    /\ pc = "start"
    /\ \E ok \in BOOLEAN :
         LET r == CheckTarget(fs, opts.overwrite, ok)
         IN  /\ fs' = r.fs
             /\ IF r.err # NoErr THEN Throw(r.err)
                ELSE pc' = "ensure" /\ UNCHANGED <<error, raised>>
    /\ UNCHANGED <<opts, tree, ctx, stack, fs0, reads, rendered, written>>
    /\ UNCHANGED genOthers

\* lines 16-32 and copyTemplate line 40: ensureDir, the context, and the
\* readdir of the template root
GenerateProject_Setup ==
    /\ pc = "ensure"
    /\ \E ok \in BOOLEAN :
         IF ok /\ CanEnsureDir(fs, <<>>)
         THEN /\ fs' = EnsureDir(fs, <<>>)
              /\ ctx' = BuildContext(opts.config)
              /\ \E items \in Readdir(tree, <<>>) : stack' = <<Frame(<<>>, <<>>, ctx', items)>>
              /\ pc' = "copy"
              /\ UNCHANGED <<error, raised>>
         ELSE /\ Throw(IOError("ensureDir"))
              /\ UNCHANGED <<fs, ctx, stack>>
    /\ UNCHANGED <<opts, tree, fs0, reads, rendered, written>>
    /\ UNCHANGED genOthers

Top == stack[Len(stack)]
Advance(st) == [st EXCEPT ![Len(st)].items = Tail(st[Len(st)].items)]

\* copyTemplate lines 42-49: the next item is a directory
CopyTemplate_Dir ==
    /\ pc = "copy"
    /\ Top.items # <<>>
    /\ LET item == Head(Top.items)
           itemPath == Append(Top.src, item)
           targetItemDir == TargetItemDir(Top.dst, item)
       IN  /\ tree[itemPath].kind = "dir"
           /\ \E ok \in BOOLEAN :
                IF ok /\ CanEnsureDir(fs, targetItemDir)
                THEN /\ fs' = EnsureDir(fs, targetItemDir)
                     /\ \E items \in Readdir(tree, itemPath) :
                          stack' = Append(Advance(stack), Frame(itemPath, targetItemDir, Top.context, items))
                     /\ UNCHANGED <<pc, error, raised>>
                ELSE /\ Throw(IOError("ensureDir"))
                     /\ UNCHANGED <<fs, stack>>
    /\ UNCHANGED <<opts, tree, ctx, fs0, reads, rendered, written>>
    /\ UNCHANGED genOthers

\* copyTemplate lines 50-52: the next item is a file
CopyTemplate_File ==
    /\ pc = "copy"
    /\ Top.items # <<>>
    /\ LET item == Head(Top.items)
           itemPath == Append(Top.src, item)
       IN  /\ tree[itemPath].kind = "file"
           /\ \E io \in {"ok", "read", "write"} :
                LET r == ProcessTemplateFile(tree, fs, itemPath, Top.dst, Top.context, io)
                IN  /\ fs' = r.fs
                    /\ reads' = IF r.read THEN reads \cup {itemPath} ELSE reads
                    /\ rendered' = rendered \cup r.used
                    /\ written' = IF r.thrown = NoErr
                                  THEN written \cup {<<itemPath, TargetFile(itemPath, Top.dst, Top.context)>>}
                                  ELSE written
                    /\ raised' = IF raised = NoErr THEN r.raised ELSE raised
                    /\ IF r.thrown # NoErr
                       THEN pc' = "failed" /\ error' = r.thrown /\ UNCHANGED stack
                       ELSE stack' = Advance(stack) /\ UNCHANGED <<pc, error>>
    /\ UNCHANGED <<opts, tree, ctx, fs0>>
    /\ UNCHANGED genOthers

\* copyTemplate line 53-54: the loop is over; return to the caller
CopyTemplate_Return ==
    /\ pc = "copy"
    /\ Top.items = <<>>
    /\ stack' = SubSeq(stack, 1, Len(stack) - 1)
    /\ pc' = IF Len(stack) = 1 THEN "done" ELSE "copy"
    /\ UNCHANGED <<opts, tree, fs, ctx, error, fs0, reads, raised, rendered, written>>
    /\ UNCHANGED genOthers

GenNext ==
    \/ GenerateProject_Check
    \/ GenerateProject_Setup
    \/ CopyTemplate_Dir
    \/ CopyTemplate_File
    \/ CopyTemplate_Return

Init == GenInit /\ RenderIdle /\ PathIdle /\ CliIdle
Next == GenNext
Spec == Init /\ [][Next]_vars


(***************************************************************************)
(* Properties of generateProject (specification Spec).                     *)
(***************************************************************************)
RunMade(f) == {p \in DOMAIN f : f[p].by = "run"}
IsSyntaxError(e) == e.msg \in {"Unclosed section", "Unopened section"}

\* C1: when the target path exists and overwrite is false, generateProject
\* fails with the directory-exists error and the file system is exactly as
\* it was at the call (nothing removed, created or written, no source read),
\* whatever the target was: empty directory, non-empty directory or file.
C1_ExistingTargetUntouched ==
    (PathExists(fs0, <<>>) /\ ~opts.overwrite /\ pc # "start")
        => (pc = "failed" /\ error = DirExistsError /\ fs = fs0 /\ reads = {})

C1_Witness ==
    /\ pc = "failed" /\ error = DirExistsError /\ ~opts.overwrite
    /\ Cardinality(DOMAIN fs0) > 1

\* C2: with overwrite true, once anything made by this run exists in the
\* target no prior entry exists any more, and after a successful run every
\* entry of the target was made by this run.
C2_OverwriteReplaces ==
    opts.overwrite =>
        /\ RunMade(fs) # {} => RunMade(fs) = DOMAIN fs
        /\ pc = "done" => (DOMAIN fs = RunMade(fs) /\ <<>> \in DOMAIN fs)

C2_Witness ==
    /\ pc = "done" /\ opts.overwrite
    /\ Cardinality(DOMAIN fs0) > 1
    /\ Cardinality(DOMAIN fs) > 1

\* C3: once generateProject has raised because a template failed to render,
\* nothing made by this run is left: neither the target directory it created
\* nor any file it wrote.
C3_NoHalfPopulatedTarget ==
    (pc = "failed" /\ IsSyntaxError(error)) => RunMade(fs) = {}

\* C4: the first failure of a file-system or render call aborts the run:
\* generateProject has failed with exactly that error, and from then on no
\* file is read and the file system does not change.
C4_FirstFailureAborts ==
    /\ [](raised # NoErr => (pc = "failed" /\ error = raised))
    /\ [][raised # NoErr => (fs' = fs /\ reads' = reads /\ rendered' = rendered)]_vars

\* the run failed on a file while a later sibling was still waiting, and that
\* sibling was never read
C4_Witness ==
    /\ pc = "failed" /\ raised # NoErr /\ raised # DirExistsError
    /\ stack # <<>>
    /\ Len(Top.items) >= 2
    /\ Append(Top.src, Top.items[2]) \notin reads
    /\ RunMade(fs) # {}

\* C5: in the TemplateContext exactly one engine boolean is true, the one of
\* the selected database, for every database of the enum.
C5_OneEngineFlag ==
    ctx # NoCtx =>
        /\ {e \in Databases : ctx[e].b} = {opts.config.database}
        /\ \A e \in Databases : ctx[e].k = "bool"

C5_Witness == ctx # NoCtx /\ opts.config.database = "mysql" /\ ctx["mysql"].b /\ pc = "done"

Leaves(t) == {p \in DOMAIN t : t[p].kind = "file"}
SourceDirs(t) == {p \in DOMAIN t : t[p].kind = "dir"}
Parent(p) == SubSeq(p, 1, Len(p) - 1)
Files(f) == {p \in DOMAIN f : f[p].kind = "file"}

\* C14: every copyTemplate call works on a target directory with the same
\* relative path as its source directory (also for a directory name that
\* starts with '_' and ends in .ts.mustache), after a successful run every
\* source directory is a directory of the target under its own path, and
\* whenever a file or directory is created or written, its parent directory
\* already exists.
C14_DirectoriesKeepPath ==
    /\ [](\A i \in 1..Len(stack) :
            /\ stack[i].dst = stack[i].src
            /\ stack[i].dst \in DOMAIN fs /\ fs[stack[i].dst].kind = "dir")
    /\ [](pc = "done" => \A d \in SourceDirs(tree) : d \in DOMAIN fs /\ fs[d].kind = "dir")
    /\ [][\A p \in DOMAIN fs' :
            (p # <<>> /\ (p \notin DOMAIN fs \/ fs'[p] # fs[p]))
                => (Parent(p) \in DOMAIN fs /\ fs[Parent(p)].kind = "dir")]_vars

C14_Witness ==
    /\ pc = "done"
    /\ StartsWith(SubDir, "_") /\ EndsWith(SubDir, ".mustache")
    /\ <<SubDir>> \in DOMAIN fs /\ fs[<<SubDir>>] = Dir("run")
    /\ \E w \in written : Parent(w[1]) = <<SubDir>> /\ Parent(w[2]) = <<SubDir>>

\* C15: no two distinct source leaves of one directory derive the same
\* target path, and no two completed writes of a run go to the same target
\* file.
C15_NoTargetCollision ==
    /\ pc \in {"copy", "done"} =>
          \A p, q \in Leaves(tree) :
              (p # q /\ Parent(p) = Parent(q))
                  => TargetFile(p, Parent(p), ctx) # TargetFile(q, Parent(q), ctx)
    /\ \A v, w \in written : v[2] = w[2] => v[1] = w[1]

\* copyTemplate run to completion with every call succeeding, the entries of
\* the directory taken in the order items
RECURSIVE CopyTemplateIn(_, _, _, _, _)
CopyTemplateIn(t, f, dir, items, context) ==
    IF items = <<>> THEN f
    ELSE LET item == Head(items)
             itemPath == Append(dir, item)
             after ==
                IF t[itemPath].kind = "dir"
                THEN CopyTemplateIn(t, EnsureDir(f, TargetItemDir(dir, item)), itemPath,
                                    CHOOSE o \in Readdir(t, itemPath) : TRUE, context)
                ELSE ProcessTemplateFile(t, f, itemPath, dir, context, "ok").fs
         IN  CopyTemplateIn(t, after, dir, Tail(items), context)

\* C16: the target after a successful generation is the one a run over one
\* fixed order of the entries of each directory produces, whatever order
\* readdir returned them in.
C16_OrderIndependent ==
    pc = "done" =>
        fs = CopyTemplateIn(tree, EnsureDir(<<>>, <<>>), <<>>,
                            CHOOSE o \in Readdir(tree, <<>>) : TRUE, ctx)

\* C17: the step that processes a source leaf whose name does not end in
\* .mustache writes exactly the content of the source to its target file,
\* {{...}} markers included, for every context, and makes no call of the
\* expander; the step that processes a leaf ending in .mustache writes the
\* output of the expander on the content that was read.
C17_PlainCopiedVerbatim ==
    [][\A w \in written' \ written :
          IF IsTemplateName(BaseName(w[1]))
          THEN /\ fs'[w[2]] = File(TxtSeq(MustacheRender(tree[w[1]].content, ctx).out), "run")
               /\ rendered' = {ctx}
          ELSE /\ fs'[w[2]] = File(tree[w[1]].content, "run")
               /\ rendered' = rendered]_vars

C17_Witness ==
    /\ pc = "done"
    /\ rendered = {}
    /\ \E w \in written :
          /\ ~IsTemplateName(BaseName(w[1]))
          /\ \E i \in 1..Len(tree[w[1]].content) : tree[w[1]].content[i].type = "#"
          /\ fs[w[2]].content = tree[w[1]].content

\* C18: after a successful generateProject into a fresh target the files of
\* the target are exactly the derived target paths of the source leaves, one
\* file for each leaf.
C18_OneFilePerLeaf ==
    (pc = "done" /\ fs0 = <<>>) =>
        /\ Files(fs) = {TargetFile(p, Parent(p), ctx) : p \in Leaves(tree)}
        /\ Cardinality(Files(fs)) = Cardinality(Leaves(tree))

\* C24: the paths of the target after a successful generation are the root,
\* the source directories and the target paths derived from the source
\* leaves under a context that shares nothing with the configuration of the
\* run but the typescript flag: feature toggles, database engine and
\* free-text fields have no part in them, and no leaf is left out.
C24_PathsDependOnTypescriptOnly ==
    pc = "done" =>
        LET other == BuildContext(Config(<<"<">>, <<"e">>, opts.config.typescript,
                                         IF opts.config.database = "sqlite" THEN "mysql" ELSE "sqlite",
                                         ~opts.config.docker, ~opts.config.redis))
        IN  DOMAIN fs = {<<>>} \cup SourceDirs(tree)
                            \cup {TargetFile(p, Parent(p), other) : p \in Leaves(tree)}

C24_Witness ==
    /\ pc = "done"
    /\ opts.config.docker /\ ~opts.config.typescript /\ opts.config.database = "mongodb"
    /\ <<(<<"a", ".ts", ".mustache">>)>> \in DOMAIN tree
    /\ <<(<<"a", ".js">>)>> \in DOMAIN fs
    /\ <<SubDir, <<"a", ".js">>>> \in DOMAIN fs

RenderConfigs == {c \in Configs : c.name = <<"d">> /\ c.database = "postgresql"}

RenderInit ==
    /\ rpc = "ready"
    /\ rin \in RenderInputs
    /\ rview \in {BuildContext(c) : c \in RenderConfigs}
    /\ rres = NoRes
    /\ GenIdle
    /\ PathIdle
    /\ CliIdle

\* const renderedContent = Mustache.render(templateContent, context)
Render ==
    /\ rpc = "ready"
    /\ rres' = MustacheRender(rin.toks, rview)
    /\ rpc' = "rendered"
    /\ UNCHANGED <<rin, rview>>
    /\ UNCHANGED renderOthers

RenderNext == Render

SpecRender == RenderInit /\ [][RenderNext]_vars

(***************************************************************************)
(* Properties of Mustache.render (specification SpecRender).               *)
(***************************************************************************)
Rendered(fam) == rpc = "rendered" /\ rin.fam = fam
BranchExpected == IF Truthy(Lookup(rview, rin.f)) THEN rin.A ELSE rin.B

\* The lines of a template: each ends with its line break.
RECURSIVE Lines(_, _)
Lines(toks, cur) ==
    IF toks = <<>> THEN (IF cur = <<>> THEN <<>> ELSE <<cur>>)
    ELSE IF Head(toks) = Txt("\n") THEN <<Append(cur, Head(toks))>> \o Lines(Tail(toks), <<>>)
    ELSE Lines(Tail(toks), Append(cur, Head(toks)))

\* A line made up of section markers and whitespace alone, with some whitespace.
MarkersAndSpaceOnly(line) ==
    /\ \E i \in 1..Len(line) : line[i].type \in {"#", "^", "/"}
    /\ \E i \in 1..Len(line) : line[i].type = "text"
    /\ \A i \in 1..Len(line) :
         \/ line[i].type \in {"#", "^", "/"}
         \/ line[i].type = "text" /\ IsWhitespace(line[i].value)

NoMarkerOnlyLine(toks) ==
    LET ls == Lines(toks, <<>>) IN \A i \in 1..Len(ls) : ~MarkersAndSpaceOnly(ls[i])

C7_Nesting ==
    (Rendered("nest") /\ rin.f # rin.g) =>
        /\ rres.ok
        /\ rres.out = IF ~rview[rin.f].b THEN <<>>
                      ELSE IF rview[rin.g].b THEN <<"X", "Y", "Z">>
                      ELSE <<"X", "Z">>

C7_Witness ==
    /\ Rendered("nest") /\ rin.f = "docker" /\ rin.g = "redis"
    /\ rview["docker"].b /\ ~rview["redis"].b
    /\ rres.out = <<"X", "Z">>

\* C8: a template whose close marker names another flag than the innermost
\* open marker, or that ends with an unclosed open marker, is not rendered:
\* an error is raised, and for the mismatch it names the open flag and the
\* close flag.
C8_MismatchNamesBothFlags ==
    Rendered("any") =>
        /\ (rin.toks # <<>> /\ rin.toks[Len(rin.toks)].type \in {"#", "^"}) => ~rres.ok
        /\ \A a, b \in {"docker", "redis"} :
             (a # b /\ rin.toks = <<Open(a), Txt("X"), Close(b)>>)
                => (~rres.ok /\ {a, b} \subseteq {rres.err.name})

\* C19: for every context key k with a string value v, the template {{k}}
\* and the template {{{k}}} both render to v unchanged, also when v holds
\* one of the characters & < > " ' /.
C19_RawInBothForms ==
    (/\ Rendered("any")
     /\ Len(rin.toks) = 1
     /\ rin.toks[1].type \in {"name", "&"}
     /\ Lookup(rview, rin.toks[1].value).k = "str")
        => LET k == rin.toks[1].value
           IN  /\ rres.ok
               /\ rres.out = Lookup(rview, k).s
               /\ MustacheRender(<<Var(k)>>, rview).out = MustacheRender(<<Raw(k)>>, rview).out

(***************************************************************************)
(* The target name of a source leaf (specification SpecPath): one source   *)
(* name, derived repeatedly under contexts that differ in every entry.     *)
(***************************************************************************)
NameAtoms == {"a", "_", ".ts", ".js", ".mustache"}
SourceNames == SeqsUpTo(NameAtoms, MaxNameLen) \ {<<>>}
PathConfigs == {c \in Configs : c.name = <<"d">> /\ c.author = <<>> /\ c.database \in {"postgresql", "mongodb"}}

PathInit ==
    /\ pname \in SourceNames
    /\ pcalls = 0
    /\ pouts = {}
    /\ GenIdle
    /\ RenderIdle
    /\ CliIdle

\* lines 61-80 for one call processTemplateFile(sourceFile, targetDir, context)
DeriveTargetName ==
    /\ pcalls < MaxCalls
    /\ \E c \in PathConfigs :
         pouts' = pouts \cup {[ts |-> c.typescript,
                                stripped |-> StrippedName(pname),
                                swapped |-> SwappedName(pname, BuildContext(c)),
                                target |-> TargetFileName(pname, BuildContext(c))]}
    /\ pcalls' = pcalls + 1
    /\ UNCHANGED pname
    /\ UNCHANGED pathOthers

PathNext == DeriveTargetName

SpecPath == PathInit /\ [][PathNext]_vars

\* C10: a source name X.ts.mustache (X not a dotfile name) maps to X.js when
\* typescript is false and to X.ts when it is true, whatever the other
\* context entries and the earlier calls are.
C10_TsTemplateName ==
    LET n == Len(pname)
        X == SubSeq(pname, 1, n - 2)
    IN  (n >= 3 /\ pname[n] = ".mustache" /\ pname[n - 1] = ".ts" /\ ~StartsWith(pname, "_"))
            => \A o \in pouts : o.target = Append(X, IF o.ts THEN ".ts" ELSE ".js")

\* C11: for a source name N + ".mustache" the name before the extension and
\* dotfile rules is N, also when N itself contains ".mustache"; a name that
\* does not end in ".mustache" is left as it is.
C11_StripsTrailingMarker ==
    \A o \in pouts :
        o.stripped = IF IsTemplateName(pname) THEN SubSeq(pname, 1, Len(pname) - 1) ELSE pname

\* C12 as stated: for every source leaf, template or plain, a name that after
\* suffix stripping ends in .ts gets a target name ending in .js when
\* typescript is false, one ending in .js gets .ts when typescript is true,
\* and a name with neither extension passes through unchanged.
C12_SwapEveryLeaf ==
    \A o \in pouts :
        /\ (HasExt(o.stripped, ".ts") /\ ~o.ts) => HasExt(o.target, ".js")
        /\ (HasExt(o.stripped, ".js") /\ o.ts) => HasExt(o.target, ".ts")
        /\ (~HasExt(o.stripped, ".ts") /\ ~HasExt(o.stripped, ".js")) => o.swapped = o.stripped

\* C13: for every source leaf whose name after suffix stripping and extension
\* swap begins with '_', the target name is that name with exactly the first
\* character replaced by '.'; every other name is the target name unchanged.
C13_DotfileRule ==
    \A o \in pouts :
        o.target = IF o.swapped # <<>> /\ o.swapped[1] = "_"
                   THEN <<".">> \o Tail(o.swapped)
                   ELSE o.swapped

C13_Witness ==
    /\ pname = <<"_", "_", "a", ".mustache">>
    /\ \E o \in pouts : o.swapped = <<"_", "_", "a">> /\ o.target = <<".", "_", "a">>

(***************************************************************************)
(* One run of the command line (specification SpecCli): the action handler *)
(* of cli/index.ts, lines 22-107.                                          *)
(***************************************************************************)
\* the templates a command line run generates from
CliTree ==
    TreeOf({ <<(<<(<<"_", "a">>)>>), Node("file", <<Txt("Y")>>)>>,
             <<(<<(<<"a", ".ts", ".mustache">>)>>),
               Node("file", BranchTpl("docker", <<"A">>, <<"B">>))>> })

CliInit ==
    /\ cpc = "start"
    /\ cargs \in [name : CliNames, yes : BOOLEAN, force : BOOLEAN]
    /\ cconfig = NoConfig
    /\ cfs \in Priors
    /\ cexit = -1
    /\ cfs0 = cfs
    /\ ccalls = {}
    /\ GenIdle
    /\ RenderIdle
    /\ PathIdle
    /\ BackendIdle

\* process.exit(code), or the end of the handler (code 0)
ExitZero(code) ==
    /\ cpc' = "exit"
    /\ cexit' = 0

Exit(code) ==
    /\ cpc' = "exit"
    /\ cexit' = code

\* lines 27-47: --yes with a project name takes the defaults
Cli_Defaults ==
    /\ cpc = "start"
    /\ cargs.yes /\ cargs.name # <<>>
    /\ cconfig' = DefaultConfig(cargs.name)
    /\ cpc' = "path"
    /\ UNCHANGED <<cargs, cfs, cexit, cfs0, ccalls>>
    /\ UNCHANGED cliOthers

\* line 49: collectProjectInfo(projectName); an empty input takes the default
Cli_Collect ==
    /\ cpc = "start"
    /\ ~(cargs.yes /\ cargs.name # <<>>)
    /\ \E typed \in CliNames, answers \in PromptAnswers :
         LET input == IF typed # <<>> THEN typed
                      ELSE IF cargs.name # <<>> THEN cargs.name ELSE DefaultName
         IN  /\ ValidateProjectName(SanitizeProjectName(input))
             /\ cconfig' = CollectProjectInfo(input, answers)
    /\ cpc' = "path"
    /\ UNCHANGED <<cargs, cfs, cexit, cfs0, ccalls>>
    /\ UNCHANGED cliOthers

\* lines 52-61: without --force the target path is validated
Cli_ValidatePath ==
    /\ cpc = "path"
    /\ IF ~cargs.force /\ ~ValidateProjectPath(cfs)
       THEN Exit(1)
       ELSE cpc' = (IF cargs.yes THEN "generate" ELSE "confirm") /\ UNCHANGED cexit
    /\ UNCHANGED <<cargs, cconfig, cfs, cfs0, ccalls>>
    /\ UNCHANGED cliOthers

\* lines 63-69: confirmGeneration(config)
Cli_Confirm ==
    /\ cpc = "confirm"
    /\ \E shouldProceed \in BOOLEAN :
         IF shouldProceed THEN cpc' = "generate" /\ UNCHANGED cexit ELSE Exit(0)
    /\ UNCHANGED <<cargs, cconfig, cfs, cfs0, ccalls>>
    /\ UNCHANGED cliOthers

\* lines 73-100: generateProject({projectPath, config, overwrite}); a failure
\* inside it ends the process with code 1
Cli_Generate ==
    /\ cpc = "generate"
    /\ \E ok \in BOOLEAN, reached \in {"ensureDir", "copyTemplate", "end"} :
         LET r == CheckTarget(cfs, cargs.force, ok)
             call(e) == [config |-> cconfig, overwrite |-> cargs.force, err |-> e]
         IN  IF r.err # NoErr
             THEN cfs' = r.fs /\ ccalls' = ccalls \cup {call(r.err)} /\ Exit(1)
             ELSE IF reached = "ensureDir"
             THEN cfs' = r.fs /\ ccalls' = ccalls \cup {call(IOError(reached))} /\ Exit(1)
             ELSE IF reached = "copyTemplate"
             THEN /\ cfs' = EnsureDir(r.fs, <<>>)
                  /\ ccalls' = ccalls \cup {call(IOError(reached))}
                  /\ Exit(1)
             ELSE /\ cfs' = CopyTemplateIn(CliTree, EnsureDir(r.fs, <<>>), <<>>,
                                           CHOOSE o \in Readdir(CliTree, <<>>) : TRUE,
                                           BuildContext(cconfig))
                  /\ ccalls' = ccalls \cup {call(NoErr)}
                  /\ Exit(0)
    /\ UNCHANGED <<cargs, cconfig, cfs0>>
    /\ UNCHANGED cliOthers

CliNext ==
    \/ Cli_Defaults
    \/ Cli_Collect
    \/ Cli_ValidatePath
    \/ Cli_Confirm
    \/ Cli_Generate

SpecCli == CliInit /\ [][CliNext]_vars

(***************************************************************************)
(* Properties of the command line (specification SpecCli).                 *)
(***************************************************************************)
\* C20: generateProject is only ever called with a project name that
\* validateProjectName accepts, also in a run started with --yes and a
\* project name; a run given an invalid name with --yes leaves the file
\* system as it was and does not end with exit code 0.
C20_InvalidNameNeverGenerated ==
    /\ \A o \in ccalls : ValidateProjectName(o.config.name)
    /\ (cargs.yes /\ cargs.name # <<>> /\ ~ValidateProjectName(cargs.name) /\ cpc # "idle")
          => (cfs = cfs0 /\ cexit # 0)

\* C21: a run that fails the validation of the project path, or in which
\* generateProject throws, ends with exit code 1; a run ends with exit code 0
\* only when generateProject returned, or when the user declined the
\* confirmation before generateProject was called and nothing was changed.
C21_ExitCodes ==
    /\ cpc # "exit" => cexit = -1
    /\ cpc = "exit" =>
         /\ (~cargs.force /\ ~ValidateProjectPath(cfs0)) => (cexit = 1 /\ ccalls = {})
         /\ (\E o \in ccalls : o.err # NoErr) => cexit = 1
         /\ cexit \in {0, 1}
         /\ cexit = 0 =>
              \/ \E o \in ccalls : o.err = NoErr
              \/ ccalls = {} /\ ~cargs.yes /\ cfs = cfs0

C21_Witness ==
    /\ cpc = "exit" /\ cexit = 1
    /\ \E o \in ccalls : o.err = IOError("copyTemplate")

\* C23: in a run without --force on a path that validateProjectPath reports
\* as valid (absent, or an existing empty directory), generateProject does
\* not throw the directory-already-exists error.
C23_PathValidationAgrees ==
    (~cargs.force /\ ValidateProjectPath(cfs0))
        => \A o \in ccalls : o.err # DirExistsError

\* C25: in every ProjectConfig handed to generateProject, from the prompts or
\* from the --yes defaults, each of the ten feature names is in the features
\* list exactly when the boolean field of that name is true.
C25_FeaturesMatchFlags ==
    \A o \in ccalls :
        \A i \in 1..Len(FeatureNames) :
            (\E j \in 1..Len(o.config.features) : o.config.features[j] = <<FeatureNames[i]>>)
                <=> o.config[FeatureNames[i]]

C25_Witness ==
    /\ \E o \in ccalls : o.config.websockets /\ ~o.config.redis /\ Len(o.config.features) = 2
    /\ cargs.name = <<>>

(***************************************************************************)
(* ClusterManager (specification SpecCluster): the master process.         *)
(* cm.workers is the sequence of the workers forked so far, worker.id its  *)
(* index: restarts is the entry of workerStats, alive tells that the       *)
(* worker is in cluster.workers and not dead, during records isShuttingDown*)
(* at the fork, parent the worker whose exit handleWorkerExit answered     *)
(* with this fork (0: none), exit how a dead worker ended.                  *)
(***************************************************************************)
\* constructor, line 45
MinWorkers == IF MaxWorkers \div 2 > 1 THEN MaxWorkers \div 2 ELSE 1

\* constructor, lines 36-47
ClusterNew ==
    [phase |-> "new", workers |-> <<>>, isShuttingDown |-> FALSE, totalRestarts |-> 0,
     reload |-> <<>>]

\* forkWorker, lines 123-138, and the restart count of lines 206-211
ForkWorker(c, parent, restarts) ==
    [c EXCEPT !.workers = Append(@, [restarts |-> restarts, alive |-> TRUE,
                                     during |-> c.isShuttingDown, parent |-> parent,
                                     exit |-> "none", exitDuring |-> FALSE])]

RECURSIVE ForkWorkers(_, _)
ForkWorkers(c, n) == IF n = 0 THEN c ELSE ForkWorkers(ForkWorker(c, 0, 0), n - 1)

Alive(c) == {w \in 1..Len(c.workers) : c.workers[w].alive}

\* line 190: stats.restarts >= this.restartThreshold
OverThresholdNever(restarts) == FALSE

OverThreshold(restarts) == restarts >= RestartThreshold

\* handleWorkerExit, lines 176-214; kind is "crash" for a non-zero code
\* without signal, "clean" for code 0, "signal" for a kill
HandleWorkerExit(c, w, kind) ==
    LET dead == [c EXCEPT !.workers[w].alive = FALSE, !.workers[w].exit = kind,
                          !.workers[w].exitDuring = c.isShuttingDown]
        stats == c.workers[w]
    IN  IF c.isShuttingDown THEN dead
        ELSE IF OverThreshold(stats.restarts) THEN dead
        ELSE IF kind = "crash"
        THEN ForkWorker([dead EXCEPT !.totalRestarts = @ + 1], w, stats.restarts + 1)
        ELSE dead

\* gracefulShutdown, lines 348-398: the flag; the workers are told to shut down
GracefulShutdown(c) == IF c.isShuttingDown THEN c ELSE [c EXCEPT !.isShuttingDown = TRUE]

\* reloadNext, lines 505-518: one step of reloadAllWorkers
ReloadNext(c) ==
    LET w == Head(c.reload)
        rest == [c EXCEPT !.reload = Tail(@)]
    IN  IF w \in Alive(c) THEN ForkWorker(rest, 0, 0) ELSE rest

ClusterInit ==
    /\ cm = ClusterNew
    /\ dbm = Off /\ au = Off
    /\ GenIdle /\ RenderIdle /\ PathIdle /\ cpc = "idle" /\ cargs = [name |-> <<>>, yes |-> FALSE, force |-> FALSE]
    /\ cconfig = NoConfig /\ cfs = <<>> /\ cexit = -1 /\ cfs0 = <<>> /\ ccalls = {}

Running == cm.phase = "running" /\ Len(cm.workers) < MaxForks

\* startMaster, lines 63-85
Cluster_Start ==
    /\ cm.phase = "new"
    /\ cm' = [ForkWorkers(cm, MaxWorkers) EXCEPT !.phase = "running"]
    /\ UNCHANGED <<dbm, au, toolVars>>

\* cluster.on('exit'), lines 157-160
Cluster_WorkerExit ==
    /\ Running
    /\ \E w \in Alive(cm), kind \in {"crash", "clean", "signal"} :
         cm' = HandleWorkerExit(cm, w, kind)
    /\ UNCHANGED <<dbm, au, toolVars>>

\* a 'health' message of a worker that reports unhealthy, lines 260-298
Cluster_UnhealthyReport ==
    /\ Running
    /\ Alive(cm) # {}
    /\ cm' = ForkWorker(cm, 0, 0)
    /\ UNCHANGED <<dbm, au, toolVars>>

\* the 30 s timer of setupMonitoring: monitorWorkerHealth, lines 418-439
Cluster_MonitorTick ==
    /\ Running
    /\ Cardinality(Alive(cm)) < MinWorkers
    /\ Len(cm.workers) + MinWorkers - Cardinality(Alive(cm)) <= MaxForks
    /\ cm' = ForkWorkers(cm, MinWorkers - Cardinality(Alive(cm)))
    /\ UNCHANGED <<dbm, au, toolVars>>

\* SIGTERM, SIGINT, uncaughtException, unhandledRejection: lines 325-342
Cluster_Shutdown ==
    /\ Running
    /\ ~cm.isShuttingDown
    /\ cm' = GracefulShutdown(cm)
    /\ UNCHANGED <<dbm, au, toolVars>>

\* SIGUSR2 has two listeners, called in the order they were added: line 326
\* (gracefulShutdown) and line 472 (reloadAllWorkers, whose first reloadNext
\* runs at once)
Cluster_Sigusr2 ==
    /\ Running
    /\ Alive(cm) # {}
    /\ cm.reload = <<>>
    /\ LET c == GracefulShutdown(cm)
           order == CHOOSE q \in Perms(Alive(cm)) : \A i \in 1..(Len(q) - 1) : q[i] < q[i + 1]
       IN  cm' = ReloadNext([c EXCEPT !.reload = order])
    /\ UNCHANGED <<dbm, au, toolVars>>

\* the 5 s timer of reloadNext, line 517
Cluster_ReloadNext ==
    /\ Running
    /\ cm.reload # <<>>
    /\ cm' = ReloadNext(cm)
    /\ UNCHANGED <<dbm, au, toolVars>>

\* process.exit of gracefulShutdown: all workers disconnected, or the 30 s timeout
Cluster_Exit ==
    /\ cm.phase = "running"
    /\ cm.isShuttingDown
    /\ cm' = [cm EXCEPT !.phase = "exited"]
    /\ UNCHANGED <<dbm, au, toolVars>>

ClusterNext ==
    \/ Cluster_Start
    \/ Cluster_WorkerExit
    \/ Cluster_UnhealthyReport
    \/ Cluster_MonitorTick
    \/ Cluster_Shutdown
    \/ Cluster_Sigusr2
    \/ Cluster_ReloadNext
    \/ Cluster_Exit

SpecCluster == ClusterInit /\ [][ClusterNext]_vars

\* C26: no worker is forked while isShuttingDown is set.
C26_NoForkWhileShuttingDown ==
    \A w \in 1..Len(cm.workers) : ~cm.workers[w].during

\* C27: a worker forked by handleWorkerExit replaces a worker that exited
\* with a non-zero code and no signal while the master was not shutting
\* down and whose restarts count was below restartThreshold, and its count
\* is that count plus one; every such exit has its replacement; so no
\* restarts count exceeds restartThreshold.
C27_RestartThreshold ==
    /\ \A w \in 1..Len(cm.workers) :
         LET x == cm.workers[w]
         IN  /\ x.restarts <= RestartThreshold
             /\ x.parent # 0 =>
                  LET d == cm.workers[x.parent]
                  IN  /\ d.exit = "crash" /\ ~d.exitDuring
                      /\ d.restarts < RestartThreshold
                      /\ x.restarts = d.restarts + 1
             /\ (x.exit = "crash" /\ ~x.exitDuring /\ x.restarts < RestartThreshold) =>
                  Cardinality({v \in 1..Len(cm.workers) : cm.workers[v].parent = w}) = 1
             /\ (x.exit # "none" /\ ~(x.exit = "crash" /\ ~x.exitDuring
                                      /\ x.restarts < RestartThreshold)) =>
                  \A v \in 1..Len(cm.workers) : cm.workers[v].parent # w

C27_Witness ==
    \E w \in 1..Len(cm.workers) :
        /\ cm.workers[w].restarts = RestartThreshold
        /\ cm.workers[w].exit = "crash" /\ ~cm.workers[w].exitDuring
        /\ ~cm.isShuttingDown
        /\ cm.totalRestarts = RestartThreshold

(***************************************************************************)
(* DatabaseConnectionManager (specification SpecDb).  dbm.runs holds the   *)
(* calls of connectWithRetry in progress, each with the caller it belongs  *)
(* to (initialize, or a handleReconnection, which first waits its backoff);*)
(* dbm.last is the outcome of the call that ended last.                    *)
(***************************************************************************)
MaxRetries == 5
MaxReconnectAttempts == 10

\* fields of the class, lines 192-195
DbNew ==
    [phase |-> "new", isConnecting |-> FALSE, reconnectAttempts |-> 0, runs |-> <<>>,
     last |-> [kind |-> "none", auths |-> 0, sleeps |-> 0, ok |-> FALSE, threw |-> FALSE,
               reconnectAttempts |-> 0]]

Run(kind, at) == [kind |-> kind, pc |-> at, attempt |-> 1, auths |-> 0, sleeps |-> 0]
Without(runs, i) == SubSeq(runs, 1, i - 1) \o SubSeq(runs, i + 1, Len(runs))

\* line 318: attempt === maxRetries
IsLastAttemptNever(attempt) == FALSE

IsLastAttempt(attempt) == attempt = MaxRetries

\* the end of connectWithRetry for run i and what its caller does next:
\* initialize lines 207-217, handleReconnection lines 419-426
EndRun(d, i, ok, threw) ==
    LET r == d.runs[i]
        attempts == IF ok \/ (~threw /\ r.kind = "reconnect") THEN 0 ELSE d.reconnectAttempts
    IN  [d EXCEPT !.runs = Without(@, i),
                  !.reconnectAttempts = attempts,
                  !.last = [kind |-> r.kind, auths |-> r.auths, sleeps |-> r.sleeps, ok |-> ok,
                            threw |-> threw, reconnectAttempts |-> attempts],
                  !.phase = IF r.kind = "init" THEN (IF threw THEN "failed" ELSE "ready") ELSE @,
                  !.isConnecting = IF r.kind = "init" THEN FALSE ELSE @]

DbInit ==
    /\ dbm = DbNew
    /\ cm = Off /\ au = Off
    /\ GenIdle /\ RenderIdle /\ PathIdle /\ cpc = "idle" /\ cargs = [name |-> <<>>, yes |-> FALSE, force |-> FALSE]
    /\ cconfig = NoConfig /\ cfs = <<>> /\ cexit = -1 /\ cfs0 = <<>> /\ ccalls = {}

\* initialize, lines 200-204
Db_Initialize ==
    /\ dbm.phase = "new"
    /\ dbm' = [dbm EXCEPT !.phase = "init", !.isConnecting = TRUE, !.runs = <<Run("init", "auth")>>]
    /\ UNCHANGED <<cm, au, toolVars>>

\* connectWithRetry, lines 308-330: one pass of the loop body
Db_Authenticate ==
    /\ \E i \in 1..Len(dbm.runs), ok \in BOOLEAN :
         /\ dbm.runs[i].pc = "auth"
         /\ LET d == [dbm EXCEPT !.runs[i].auths = @ + 1]
            IN  dbm' = IF ok THEN EndRun(d, i, TRUE, FALSE)
                       ELSE IF IsLastAttempt(d.runs[i].attempt) THEN EndRun(d, i, FALSE, TRUE)
                       ELSE [d EXCEPT !.runs[i].pc = "sleep", !.runs[i].sleeps = @ + 1]
    /\ UNCHANGED <<cm, au, toolVars>>

\* connectWithRetry, line 331 and the loop header of line 308
Db_Wake ==
    /\ \E i \in 1..Len(dbm.runs) :
         /\ dbm.runs[i].pc = "sleep"
         /\ dbm' = IF dbm.runs[i].attempt + 1 <= MaxRetries
                   THEN [dbm EXCEPT !.runs[i].pc = "auth", !.runs[i].attempt = @ + 1]
                   ELSE EndRun(dbm, i, FALSE, FALSE)
    /\ UNCHANGED <<cm, au, toolVars>>

\* the 30 s timer of startHealthCheckInterval with a failed health check,
\* lines 383-389, and handleReconnection up to its wait, lines 397-409
Db_UnhealthyTick ==
    /\ dbm.phase = "ready"
    /\ ~dbm.isConnecting
    /\ dbm.reconnectAttempts < MaxReconnectAttempts
    /\ Len(dbm.runs) < MaxActive
    /\ dbm' = [dbm EXCEPT !.reconnectAttempts = @ + 1,
                          !.runs = Append(@, Run("reconnect", "backoff"))]
    /\ UNCHANGED <<cm, au, toolVars>>

\* handleReconnection, lines 411-414: the wait is over; sequelize.close()
\* may throw, otherwise initializeSequelize calls connectWithRetry
Db_Reconnect ==
    /\ \E i \in 1..Len(dbm.runs), closed \in BOOLEAN :
         /\ dbm.runs[i].pc = "backoff"
         /\ dbm' = IF closed THEN [dbm EXCEPT !.runs[i].pc = "auth"]
                   ELSE [dbm EXCEPT !.runs = Without(@, i)]
    /\ UNCHANGED <<cm, au, toolVars>>

DbNext ==
    \/ Db_Initialize
    \/ Db_Authenticate
    \/ Db_Wake
    \/ Db_UnhealthyTick
    \/ Db_Reconnect

SpecDb == DbInit /\ [][DbNext]_vars

\* C28: a call of connectWithRetry makes at most 5 authenticate attempts and
\* sleeps only between attempts; it ends at the first successful attempt,
\* returning with reconnectAttempts 0, or it throws, which it does exactly
\* when all 5 attempts failed, without a sleep after the fifth.
C28_ConnectWithRetry ==
    /\ \A i \in 1..Len(dbm.runs) :
         LET r == dbm.runs[i]
         IN  /\ r.auths <= MaxRetries /\ r.attempt <= MaxRetries
             /\ r.pc = "auth" => (r.auths = r.attempt - 1 /\ r.sleeps = r.auths)
             /\ r.pc = "sleep" => (r.auths = r.attempt /\ r.sleeps = r.auths /\ r.auths < MaxRetries)
    /\ dbm.last.kind # "none" =>
         /\ dbm.last.auths \in 1..MaxRetries
         /\ dbm.last.sleeps = dbm.last.auths - 1
         /\ dbm.last.ok # dbm.last.threw
         /\ dbm.last.threw <=> (dbm.last.auths = MaxRetries /\ ~dbm.last.ok)
         /\ dbm.last.ok => dbm.last.reconnectAttempts = 0

C28_Witness ==
    /\ dbm.last.kind = "reconnect" /\ dbm.last.threw
    /\ dbm.last.auths = MaxRetries /\ dbm.last.sleeps = MaxRetries - 1

\* C29: at most one handleReconnection is in progress at any time, and
\* reconnectAttempts never exceeds maxReconnectAttempts.
C29_OneReconnection ==
    /\ Cardinality({i \in 1..Len(dbm.runs) : dbm.runs[i].kind = "reconnect"}) <= 1
    /\ dbm.reconnectAttempts <= MaxReconnectAttempts

(***************************************************************************)
(* Authentication middleware (specification SpecAuth).  A middleware run   *)
(* is the sequence of what it did to the response: Res(status) for a call  *)
(* of res.status(status).json, "next" for next(), "throw" for an exception *)
(* leaving it.  au.last is the last request: its header, whether its token *)
(* had been logged out before, and the run of each middleware and handler  *)
(* it went through.                                                        *)
(***************************************************************************)
UserIds == {"u1", "u2"}
Tokens == {"t1", "t2", "bad"}            \* t1, t2 signed for u1, u2; bad: not a valid JWT
Owner(token) == IF token = "t1" THEN "u1" ELSE "u2"
Role(id) == IF id = "u1" THEN "admin" ELSE "none"   \* u2 has no role
NoHeader == [scheme |-> "none", token |-> "none"]
Bearer(token) == [scheme |-> "Bearer", token |-> token]
Headers == {NoHeader, [scheme |-> "Basic", token |-> "none"]} \cup {Bearer(t) : t \in Tokens}
Res(status) == [e |-> "res", status |-> status]
CallNext == [e |-> "next", status |-> 0]
Thrown == [e |-> "throw", status |-> 0]
NoUser == "undefined"

\* jwt.verify, line 57: the error it throws, "none" when it returns
JwtVerify(token, a) ==
    IF token = "bad" THEN "JsonWebTokenError"
    ELSE IF token \in a.expired THEN "TokenExpiredError" ELSE "none"

\* the catch block of authenticate, lines 88-121
AuthenticateCatch(name) ==
    (IF name = "JsonWebTokenError" THEN <<Res(401)>> ELSE <<>>)
    \o (IF name = "TokenExpiredError" THEN <<Res(401)>> ELSE <<>>)
    \o <<Res(500)>>

\* authenticate, lines 25-122: its run and the req.user it leaves
Authenticate(header, dbOk, a) ==
    LET token == header.token
        name == JwtVerify(token, a)
        none(run) == [run |-> run, user |-> NoUser]
    IN  IF header.scheme # "Bearer" THEN none(<<Res(401)>>)
        ELSE IF ~a.jwt THEN none(<<Res(500)>>)
        ELSE IF name # "none" THEN none(AuthenticateCatch(name))
        ELSE IF ~dbOk THEN none(AuthenticateCatch("SequelizeConnectionError"))
        ELSE IF a.users[Owner(token)] = "gone" THEN none(<<Res(401)>>)
        ELSE IF a.users[Owner(token)] = "inactive" THEN none(<<Res(401)>>)
        ELSE [run |-> <<CallNext>>, user |-> Owner(token)]

\* authorize, lines 127-154
Authorize(roles, user) ==
    LET userRole == IF Role(user) = "none" THEN "user" ELSE Role(user)
    IN  IF user = NoUser THEN <<Res(401), Thrown>>
        ELSE IF userRole \notin roles THEN <<Res(403)>>
        ELSE <<CallNext>>

\* AuthController.logout, authValidators.ts lines 410-425, and the other
\* controllers, which answer 200
Controller == <<Res(200)>>

Routes == {"logout", "profile", "admin"}
Continues(run) == \E i \in 1..Len(run) : run[i] = CallNext

\* the middleware chain of a route: each run, in order, until one does not
\* call next()
Chain(route, header, dbOk, a) ==
    LET auth == Authenticate(header, dbOk, a)
        authz == Authorize({"admin"}, auth.user)
    IN  IF ~Continues(auth.run) THEN [authenticate |-> auth.run, authorize |-> <<>>, controller |-> <<>>]
        ELSE IF route # "admin" THEN [authenticate |-> auth.run, authorize |-> <<>>, controller |-> Controller]
        ELSE [authenticate |-> auth.run, authorize |-> authz,
              controller |-> IF Continues(authz) THEN Controller ELSE <<>>]

NoRequest ==
    [route |-> "none", header |-> NoHeader, loggedOut |-> FALSE,
     runs |-> [authenticate |-> <<>>, authorize |-> <<>>, controller |-> <<>>]]

AuthInit ==
    /\ \E users \in [UserIds -> {"active", "inactive", "gone"}], jwt \in BOOLEAN :
         au = [phase |-> "up", users |-> users, jwt |-> jwt, expired |-> {}, loggedOut |-> {},
               last |-> NoRequest]
    /\ cm = Off /\ dbm = Off
    /\ GenIdle /\ RenderIdle /\ PathIdle /\ cpc = "idle" /\ cargs = [name |-> <<>>, yes |-> FALSE, force |-> FALSE]
    /\ cconfig = NoConfig /\ cfs = <<>> /\ cexit = -1 /\ cfs0 = <<>> /\ ccalls = {}

\* one request to a protected route, from the first middleware to the last
Auth_Request ==
    /\ \E route \in Routes, header \in Headers, dbOk \in BOOLEAN :
         LET runs == Chain(route, header, dbOk, au)
         IN  au' = [au EXCEPT
                      !.last = [route |-> route, header |-> header,
                                loggedOut |-> header.token \in au.loggedOut, runs |-> runs],
                      !.loggedOut = IF route = "logout" /\ runs.controller # <<>>
                                    THEN @ \cup {header.token} ELSE @]
    /\ UNCHANGED <<cm, dbm, toolVars>>

\* authorize used on a request no middleware before it gave a user
Auth_AuthorizeAlone ==
    /\ \E roles \in {{"admin"}, {"admin", "user"}}, user \in UserIds \cup {NoUser} :
         au' = [au EXCEPT !.last = [route |-> "authorize", header |-> NoHeader, loggedOut |-> FALSE,
                                    runs |-> [authenticate |-> <<>>, authorize |-> Authorize(roles, user),
                                              controller |-> <<>>]]]
    /\ UNCHANGED <<cm, dbm, toolVars>>

\* time passes the exp of a token
Auth_TokenExpires ==
    /\ \E t \in Tokens \ ({"bad"} \cup au.expired) : au' = [au EXCEPT !.expired = @ \cup {t}]
    /\ UNCHANGED <<cm, dbm, toolVars>>

AuthNext ==
    \/ Auth_Request
    \/ Auth_AuthorizeAlone
    \/ Auth_TokenExpires

SpecAuth == AuthInit /\ [][AuthNext]_vars

\* C22: a request to a protected route that carries a token with which a
\* logout succeeded earlier is answered 401 by authenticate and reaches no
\* controller.
C22_LoggedOutTokenRejected ==
    au.last.loggedOut =>
        /\ au.last.runs.authenticate # <<>>
        /\ au.last.runs.authenticate[1] = Res(401)
        /\ au.last.runs.controller = <<>>

\* C30: each run of authenticate and of authorize is exactly one step: one
\* call of next() or one response sent, and nothing after it.
C30_OneOutcome ==
    \A m \in {"authenticate", "authorize"} :
        LET run == au.last.runs[m]
        IN  run # <<>> => (Len(run) = 1 /\ run[1].e \in {"next", "res"})

====
